---------------------------- MODULE Spec2Model ----------------------------
(***************************************************************************)
(* Model of the ES6 migration transformer of ros3djs (Gruntfile.js):       *)
(* transpileToEs6 and the regular-expression rewrite stages it chains,     *)
(* together with the two process-wide tables (inheritance.index and        *)
(* dependencies.internal) the stages read and extend.                      *)
(*                                                                         *)
(* A text is a flat sequence of tokens.  A token is a string; the text is  *)
(* the concatenation of its tokens.  The newline character is the token    *)
(* NL.  Each regular expression of the source is translated to a matcher   *)
(* over tokens; String.prototype.replace is the loop "find the leftmost    *)
(* match at or after lastIndex, copy the text before it, call the          *)
(* callback, append what it returns", one callback invocation per step.    *)
(***************************************************************************)
EXTENDS Integers, Sequences, FiniteSets, TLC

\* ------------------------------------------------------------------ tokens

NL     == "\n"
INDENT == "  "                 \* const indent = '  '
NS     == "ROS3D."             \* the namespace prefix, dot included
DOC    == "/** doc */"         \* a documentation comment, on one line
PROTO  == ".prototype"
CALL   == ".call("

\* Tokens matched by \w+ : identifiers and keywords.
WordTokens ==
  {"Arrow2", "Marker", "Base", "util", "dispose", "__proto__", "constructor",
   "function", "this", "that", "options", "return", "if", "a", "b", "x", "f"}

\* Tokens matched by [\w.]+ but not by \w+ : a name qualified by a foreign
\* namespace.
QualifiedTokens == {"THREE.Object3D", "THREE.EventDispatcher"}

\* Tokens made of white space only (\s).
SpaceTokens == {" ", INDENT, NL}

\* Tokens that contain the character '='.
EqTokens == {" = ", " == "}

IsWord(t)  == t \in WordTokens
IsSpace(t) == t \in SpaceTokens
HasEq(t)   == t \in EqTokens

\* -------------------------------------------------------------- sequences

Min(S) == CHOOSE m \in S : \A n \in S : m <= n
Max(S) == CHOOSE m \in S : \A n \in S : m >= n

\* The string a token sequence spells.
RECURSIVE Join(_)
Join(toks) == IF toks = <<>> THEN "" ELSE Head(toks) \o Join(Tail(toks))

\* Lines joined by newline characters.
RECURSIVE Unlines(_)
Unlines(lines) ==
  IF lines = <<>> THEN <<>>
  ELSE IF Len(lines) = 1 THEN lines[1]
  ELSE lines[1] \o <<NL>> \o Unlines(Tail(lines))

\* Index of the end of the line that position i is on: the index of the next
\* NL at or after i, or Len(src)+1 at end of input.
EolOf(src, i) ==
  LET S == {j \in i..Len(src) : src[j] = NL}
  IN  IF S = {} THEN Len(src) + 1 ELSE Min(S)

\* Leftmost position at or after pos where At holds, 0 if none
\* (RegExp.prototype.exec from lastIndex).
Leftmost(S) == IF S = {} THEN 0 ELSE Min(S)

\* ------------------------------------------------------------ file names

\* path.basename(filepath, '.js')
basename(f, ext) == IF f.ext = ext THEN f.base ELSE f.base \o f.ext
FullPath(f)      == f.dir \o f.base \o f.ext

\* A filename test that every name passes.
isFileClassAlways(filepath, className) == TRUE

getFileClass(filepath)           == basename(filepath, ".js")
isFileClass(filepath, className) == getFileClass(filepath) = className

\* ------------------------------------------------------ inheritance index

\* inheritance.index is a JS object: a key that was never assigned reads as
\* undefined; an assigned key holds null or a parent name.
UNDEFINED == "<undefined>"
NULL      == "<null>"

\* JS truthiness of a value that is undefined, null or a string.
Truthy(v) == v \notin {UNDEFINED, NULL, ""}

Get(obj, key) == IF key \in DOMAIN obj THEN obj[key] ELSE UNDEFINED
\* An assignment that replaces the object by one holding the new key alone.
PutAlone(obj, key, val) == [k \in {key} |-> val]

Put(obj, key, val) ==
  [k \in DOMAIN obj \cup {key} |-> IF k = key THEN val ELSE obj[k]]

isClass(idx, prop)    == Get(idx, prop) # UNDEFINED
getParent(idx, child) == Get(idx, child)

\* track without the "not yet resolved" test: the last parent wins.
trackLastWins(idx, child, parent) ==
  IF Truthy(parent)
  THEN Put(idx, child, parent)
  ELSE IF ~isClass(idx, child) THEN Put(idx, child, NULL) ELSE idx

\* track that records a parent only for a symbol it has never seen.
trackUnknownOnly(idx, child, parent) ==
  IF Truthy(parent) /\ ~isClass(idx, child)
  THEN Put(idx, child, parent)
  ELSE IF ~isClass(idx, child) THEN Put(idx, child, NULL) ELSE idx

\* track whose second branch overwrites the entry with null.
trackNullOverwrites(idx, child, parent) ==
  IF Truthy(parent) /\ ~Truthy(Get(idx, child))
  THEN Put(idx, child, parent)
  ELSE Put(idx, child, NULL)

\* inheritance.track(child, parent): the index after the call.
track(idx, child, parent) ==
  IF Truthy(parent) /\ ~Truthy(Get(idx, child))
  THEN Put(idx, child, parent)
  ELSE IF ~isClass(idx, child) THEN Put(idx, child, NULL) ELSE idx

\* ------------------------------------------------------- dependency graph

\* dependencies.track(file, dependency): dependencies.internal after the call.
Includes(list, e) == \E i \in 1..Len(list) : list[i] = e

\* dependencies.track without the includes test.
dependenciesTrackAlways(deps, file, dependency) ==
  LET d1 == IF Get(deps, file) = UNDEFINED THEN Put(deps, file, <<>>) ELSE deps
  IN  [d1 EXCEPT ![file] = Append(@, dependency)]

dependenciesTrack(deps, file, dependency) ==
  LET d1 == IF Get(deps, file) = UNDEFINED THEN Put(deps, file, <<>>) ELSE deps
  IN  IF ~Includes(d1[file], dependency)
      THEN [d1 EXCEPT ![file] = Append(@, dependency)]
      ELSE d1


\* ------------------------------------------------------------ the stages
\* For each regular expression: XAt(src, i) says the expression matches at
\* token i, XEnd(src, i) is the index just after that match, and the
\* captures are named as in the callback.

\* initialROS3DAssignment:
\*   /var ROS3D = ROS3D \|\| \{\n  REVISION \: '0.18.0'\n\};/m
VARINIT   == "var ROS3D = ROS3D || {"
REVISION  == "REVISION : '0.18.0'"
ENDINIT   == "};"
EXPORTREV == "export const REVISION = '0.18.0';"

initialAt(src, i) ==
  /\ i + 5 <= Len(src)
  /\ SubSeq(src, i, i + 5) = <<VARINIT, NL, INDENT, REVISION, NL, ENDINIT>>
initialEnd(src, i) == i + 6

\* The expression without its lookahead:  /ROS3D\.(\w+)/g
depAtNoLookahead(src, i) ==
  /\ i + 1 <= Len(src)
  /\ src[i] = NS
  /\ IsWord(src[i + 1])

\* internalDependencies:  /ROS3D\.(\w+)(?!.*=.*)/g
\* The lookahead fails when a '=' stands anywhere later on the same line.
depAt(src, i) ==
  /\ i + 1 <= Len(src)
  /\ src[i] = NS
  /\ IsWord(src[i + 1])
  /\ \A j \in (i + 2)..(EolOf(src, i) - 1) : ~HasEq(src[j])
depEnd(src, i) == i + 2
depName(src, i) == src[i + 1]

\* buildInheritanceIndexViaProto:
\*   /ROS3D.(\w+).prototype.__proto__ = (.*).prototype;[\r\n]?/g
\* (.*) is greedy: it runs to the last ".prototype;" of the line.
protoCloses(src, i) ==
  {j \in (i + 6)..(EolOf(src, i) - 2) : src[j] = PROTO /\ src[j + 1] = ";"}
\* A link expression that matches only before the first function assignment.
protoAtBeforeConstructor(src, i) ==
  /\ i + 5 <= Len(src)
  /\ src[i] = NS
  /\ IsWord(src[i + 1])
  /\ SubSeq(src, i + 2, i + 5) = <<PROTO, ".", "__proto__", " = ">>
  /\ protoCloses(src, i) # {}
  /\ \A j \in 1..(i - 1) :
       ~(src[j] = NS /\ SubSeq(src, j + 2, j + 3) = <<" = ", "function">>)

protoAt(src, i) ==
  /\ i + 5 <= Len(src)
  /\ src[i] = NS
  /\ IsWord(src[i + 1])
  /\ SubSeq(src, i + 2, i + 5) = <<PROTO, ".", "__proto__", " = ">>
  /\ protoCloses(src, i) # {}
protoChild(src, i)  == src[i + 1]
protoParent(src, i) == Join(SubSeq(src, i + 6, Max(protoCloses(src, i)) - 1))
protoEnd(src, i) ==
  LET e == Max(protoCloses(src, i)) + 2
  IN  IF e <= Len(src) /\ src[e] = NL THEN e + 1 ELSE e

\* buildInheritanceIndexViaObjectAssign:
\*   /Object.assign\((\w+).prototype, (.*).prototype\);/g
ASSIGN == "Object.assign("
assignCloses(src, i) ==
  {j \in (i + 5)..(EolOf(src, i) - 3) :
     src[j] = PROTO /\ src[j + 1] = ")" /\ src[j + 2] = ";"}
assignAt(src, i) ==
  /\ i + 4 <= Len(src)
  /\ src[i] = ASSIGN
  /\ IsWord(src[i + 1])
  /\ SubSeq(src, i + 2, i + 4) = <<PROTO, ",", " ">>
  /\ assignCloses(src, i) # {}
assignChild(src, i)  == src[i + 1]
assignParent(src, i) == Join(SubSeq(src, i + 5, Max(assignCloses(src, i)) - 1))
assignEnd(src, i)    == Max(assignCloses(src, i)) + 3

\* methods:  /ROS3D.(\w+).prototype.(\w+) = function/g
methodAt(src, i) ==
  /\ i + 6 <= Len(src)
  /\ src[i] = NS
  /\ IsWord(src[i + 1])
  /\ SubSeq(src, i + 2, i + 3) = <<PROTO, ".">>
  /\ IsWord(src[i + 4])
  /\ SubSeq(src, i + 5, i + 6) = <<" = ", "function">>
methodEnd(src, i)   == i + 7
methodOwner(src, i) == src[i + 1]
methodName(src, i)  == src[i + 4]

\* constructors:  /ROS3D.(\w+)\s*=\s*function/g
constructorAt(src, i) ==
  /\ i + 3 <= Len(src)
  /\ src[i] = NS
  /\ IsWord(src[i + 1])
  /\ SubSeq(src, i + 2, i + 3) = <<" = ", "function">>
constructorEnd(src, i)  == i + 4
constructorName(src, i) == src[i + 1]

\* parentConstructors:  /[\r\n]([\s]*)([\w.]+)\.call\((?:this|that)(.*)/g
\* The match starts at a newline, takes all white space after it (blank
\* lines included), then the reference, ".call(", the receiver, and the rest
\* of the line.
RECURSIVE SkipWhile(_, _, _)
\* First index at or after i whose token is not in the set T.
SkipWhile(src, i, T) ==
  IF i <= Len(src) /\ src[i] \in T THEN SkipWhile(src, i + 1, T) ELSE i

RefTokens == WordTokens \cup QualifiedTokens \cup {".", PROTO, NS}

callRefStart(src, i) == SkipWhile(src, i + 1, SpaceTokens)
callRefEnd(src, i)   == SkipWhile(src, callRefStart(src, i), RefTokens)
parentCallAt(src, i) ==
  /\ i <= Len(src)
  /\ src[i] = NL
  /\ LET r == callRefEnd(src, i)
     IN  /\ r > callRefStart(src, i)
         /\ r + 1 <= Len(src)
         /\ src[r] = CALL
         /\ src[r + 1] \in {"this", "that"}
parentCallEnd(src, i)    == EolOf(src, callRefEnd(src, i))
parentCallIndent(src, i) == SubSeq(src, i + 1, callRefStart(src, i) - 1)
parentCallRef(src, i)    ==
  Join(SubSeq(src, callRefStart(src, i), callRefEnd(src, i) - 1))
parentCallRest(src, i)   ==
  SubSeq(src, callRefEnd(src, i) + 2, parentCallEnd(src, i) - 1)

\* $2.split(/,|\)/): the pieces between the ',' and ')' characters.
RECURSIVE Split(_, _)
Split(toks, piece) ==
  IF toks = <<>> THEN <<piece>>
  ELSE IF Head(toks) \in {",", ")"}
       THEN <<piece>> \o Split(Tail(toks), <<>>)
       ELSE Split(Tail(toks), Append(piece, Head(toks)))

\* Array.prototype.slice(1, -1)
Slice1(pieces) ==
  IF Len(pieces) <= 2 THEN <<>> ELSE SubSeq(pieces, 2, Len(pieces) - 1)

\* Array.prototype.join(',')
RECURSIVE JoinComma(_)
JoinComma(pieces) ==
  IF pieces = <<>> THEN <<>>
  ELSE IF Len(pieces) = 1 THEN pieces[1]
  ELSE pieces[1] \o <<",">> \o JoinComma(Tail(pieces))

\* String.prototype.trim()
RECURSIVE TrimLeft(_)
TrimLeft(toks) ==
  IF toks # <<>> /\ IsSpace(Head(toks)) THEN TrimLeft(Tail(toks)) ELSE toks
RECURSIVE TrimRight(_)
TrimRight(toks) ==
  IF toks # <<>> /\ IsSpace(toks[Len(toks)])
  THEN TrimRight(SubSeq(toks, 1, Len(toks) - 1)) ELSE toks
Trim(toks) == TrimRight(TrimLeft(toks))

superArgs(rest) == Trim(JoinComma(Slice1(Split(rest, <<>>))))

\* `\n${indent}super(${args});`
SUPER == "super("
superCall(indent, args) == <<NL>> \o indent \o <<SUPER>> \o args \o <<")", ";">>


\* classes:
\*   /((?:\/\*\*(?:(?:\*[^/]|[^*])+?)\*\/)(?:[\s\r\n])*constructor\(.*)
\*      |$(?:[\r\n]$)*((?![\r\n]))|.*/gm
\* Three alternatives, tried in this order at position p:
\*   "start"  ($1) a documentation comment, white space, "constructor(" and
\*            the rest of that line;
\*   "finish" ($2) an end of line from which only newlines remain up to the
\*            end of input;
\*   "line"   the rest of the line, possibly empty.
CONSTRUCTOR == "constructor"

classesCtor(src, p) == SkipWhile(src, p + 1, SpaceTokens)
classesStartAt(src, p) ==
  /\ p <= Len(src)
  /\ src[p] = DOC
  /\ LET c == classesCtor(src, p)
     IN  c + 1 <= Len(src) /\ src[c] = CONSTRUCTOR /\ src[c + 1] = "("
classesFinishAt(src, p) == \A j \in p..Len(src) : src[j] = NL

classesKind(src, p) ==
  IF classesStartAt(src, p) THEN "start"
  ELSE IF classesFinishAt(src, p) THEN "finish"
  ELSE "line"
classesEnd(src, p) ==
  IF classesStartAt(src, p) THEN EolOf(src, classesCtor(src, p))
  ELSE IF classesFinishAt(src, p) THEN Len(src) + 1
  ELSE EolOf(src, p)

\* match.replace(/[\r\n]/g, `\n${indent}`)
RECURSIVE IndentNewlines(_)
IndentNewlines(toks) ==
  IF toks = <<>> THEN <<>>
  ELSE IF Head(toks) = NL THEN <<NL, INDENT>> \o IndentNewlines(Tail(toks))
  ELSE <<Head(toks)>> \o IndentNewlines(Tail(toks))

EXPORTCLASS == "export class "
EXTENDSKW   == " extends "
OPENBRACE   == " {"
CLOSEBRACE  == "}"

\* A header that never carries the inheritance clause.
classHeaderNoParent(className, parent) ==
  <<EXPORTCLASS, className, OPENBRACE, NL, NL>>

\* `export class ${className} extends ${parent} {\n\n` or
\* `export class ${className} {\n\n`
classHeader(className, parent) ==
  IF Truthy(parent)
  THEN <<EXPORTCLASS, className, EXTENDSKW, parent, OPENBRACE, NL, NL>>
  ELSE <<EXPORTCLASS, className, OPENBRACE, NL, NL>>

\* A start test that forgets that a block has been opened.
classesIsStartEveryComment(kind, st) == kind = "start"

\* The callback of transpile.classes: what it returns for a match of the
\* given kind, and the closure state it leaves.
classesIsStart(kind, st) == kind = "start" /\ ~st.matchedFirstComment

\* A callback that opens the block without indenting the matched text.
classesReturnFlat(match, kind, st, className, parent) ==
  IF kind = "start" /\ ~st.matchedFirstComment
  THEN classHeader(className, parent) \o match
  ELSE IF st.isInClass
       THEN IF kind # "finish" THEN <<INDENT>> \o match
            ELSE <<NL, CLOSEBRACE, NL>>
       ELSE match

\* A callback that closes at the end of input whether or not a block is open.
classesReturnCloseAlways(match, kind, st, className, parent) ==
  IF kind = "start" /\ ~st.matchedFirstComment
  THEN classHeader(className, parent) \o <<INDENT>> \o IndentNewlines(match)
  ELSE IF kind = "finish" THEN <<NL, CLOSEBRACE, NL>>
       ELSE IF st.isInClass THEN <<INDENT>> \o match ELSE match

classesReturn(match, kind, st, className, parent) ==
  IF classesIsStart(kind, st)
  THEN classHeader(className, parent) \o <<INDENT>> \o IndentNewlines(match)
  ELSE IF st.isInClass
       THEN IF kind # "finish" THEN <<INDENT>> \o match
            ELSE <<NL, CLOSEBRACE, NL>>
       ELSE match

\* A closure state that is never told the block has been closed.
classesStateStaysOpen(kind, st) ==
  IF kind = "start" /\ ~st.matchedFirstComment
  THEN [isInClass |-> TRUE, matchedFirstComment |-> TRUE]
  ELSE st

classesState(kind, st) ==
  IF classesIsStart(kind, st)
  THEN [isInClass |-> TRUE, matchedFirstComment |-> TRUE]
  ELSE IF st.isInClass /\ kind = "finish"
       THEN [st EXCEPT !.isInClass = FALSE]
       ELSE st


\* ------------------------------------------------------------- the inputs
\* Source units in the legacy dialect, one statement per line, written as
\* the statements the comments of the source show.

fArrow2 == [dir |-> "src/models/", base |-> "Arrow2", ext |-> ".js"]
fMarker == [dir |-> "src/markers/", base |-> "Marker", ext |-> ".js"]
fUtil   == [dir |-> "src/", base |-> "util", ext |-> ".js"]
fRoot   == [dir |-> "src/", base |-> "Ros3D", ext |-> ".js"]

\* ROS3D.Child.prototype.__proto__ = Parent.prototype;
lnLink(child, parent) ==
  <<NS, child, PROTO, ".", "__proto__", " = ">> \o parent \o <<PROTO, ";">>
\* Object.assign(ROS3D.Child.prototype, Parent.prototype);
lnMerge(child, parent) ==
  <<ASSIGN, NS, child, PROTO, ",", " ">> \o parent \o <<PROTO, ")", ";">>
\* ROS3D.Owner.prototype.name = function() {
lnMethod(owner, name) ==
  <<NS, owner, PROTO, ".", name, " = ", "function", "(", ")", OPENBRACE>>
\* ROS3D.Name = function(options) {
lnConstructor(name) ==
  <<NS, name, " = ", "function", "(", "options", ")", OPENBRACE>>
\*   Parent.call(this, args);
lnCall(ref, receiver, args) ==
  <<INDENT>> \o ref \o <<CALL, receiver>> \o args \o <<")", ";">>
\*   return ROS3D.name(x);
lnRead(name) == <<INDENT, "return", " ", NS, name, "(", "x", ")", ";">>
\*   if (ROS3D.name == x) {
lnCompare(name) == <<INDENT, "if", " ", "(", NS, name, " == ", "x", ")", OPENBRACE>>
\* ROS3D.util = function(x) { return x; };
lnFunction(name) ==
  <<NS, name, " = ", "function", "(", "x", ")", OPENBRACE, " ", "return", " ",
    "x", ";", " ", CLOSEBRACE, ";">>
lnDoc   == <<DOC>>
lnEnd   == <<CLOSEBRACE, ";">>
lnBlank == <<>>

\* Parent references as they are written.
pBase      == <<"Base">>
pNsBase    == <<NS, "Base">>
pObject3D  == <<"THREE.Object3D">>
pDisp      == <<"THREE.EventDispatcher">>

noArgs     == <<>>
twoArgs    == <<",", " ", "a", ",", " ", "b">>
nestedArgs == <<",", " ", "f", "(", "a", ",", " ", "b", ")">>

\* What may stand before the constructor: inheritance statements.
Preambles(n) ==
  { <<>>,
    <<lnLink(n, pBase)>>,
    <<lnLink(n, pNsBase)>>,
    <<lnLink(n, pObject3D)>>,
    <<lnLink(n, pBase), lnLink(n, pObject3D)>>,
    <<lnMerge(n, pDisp)>>,
    <<lnMerge(n, pDisp), lnLink(n, pObject3D)>> }

\* What may stand in the constructor body.
Bodies ==
  { <<>>,
    <<lnCall(pBase, "this", twoArgs)>>,
    <<lnBlank, lnCall(pObject3D, "this", noArgs), lnCall(pDisp, "that", noArgs)>>,
    <<lnCall(pNsBase, "this", nestedArgs), lnCompare("util")>> }

\* What may follow the constructor.
Epilogues(n) ==
  { <<>>,
    <<lnBlank, lnDoc, lnMethod(n, "dispose"), lnRead("util"), lnEnd>>,
    <<lnLink(n, pObject3D)>>,
    <<lnMerge(n, pDisp)>>,
    <<lnDoc, lnConstructor(n), lnEnd>>,
    <<lnMethod(n, "__proto__"), lnEnd>> }

\* How the text ends: no newline, one, or two.
Endings == { <<>>, <<lnBlank>>, <<lnBlank, lnBlank>> }

ClassUnit(f, n, pre, doc, body, post, ending) ==
  [ filepath |-> f,
    content  |-> Unlines(pre \o (IF doc THEN <<lnDoc>> ELSE <<>>)
                         \o <<lnConstructor(n)>> \o body \o <<lnEnd>>
                         \o post \o ending) ]

\* Class files: the inheritance statements and the constructor body vary.
UnitsInheritance ==
  { ClassUnit(f, n, pre, TRUE, body, <<>>, <<lnBlank>>) :
      f \in {fArrow2}, n \in {"Arrow2", "Marker"},
      pre \in Preambles("Arrow2") \cup Preambles("Marker"), body \in Bodies }

\* Class files: the comment, what follows the constructor and the ending vary.
UnitsLayout ==
  { ClassUnit(fArrow2, "Arrow2", <<lnLink("Arrow2", pBase)>>, doc,
              <<lnCall(pBase, "this", twoArgs)>>, post, ending) :
      doc \in BOOLEAN, post \in Epilogues("Arrow2"), ending \in Endings }

\* Files of plain functions and constants.
UnitsPlain ==
  { [filepath |-> f, content |-> Unlines(ls \o ending)] :
      f \in {fUtil, fMarker},
      ls \in { <<lnFunction("util")>>,
               <<lnDoc, lnFunction("util")>>,
               <<lnDoc, lnFunction("Marker"), lnRead("util")>>,
               <<lnDoc, lnMethod("Marker", "dispose"), lnRead("f"), lnEnd>>,
               <<lnMethod("util", "dispose"), lnEnd>> },
      ending \in {<<>>, <<lnBlank>>} }

\* The root unit, with and without the namespace initialisation.
lnsInit == <<<<VARINIT>>, <<INDENT, REVISION>>, <<ENDINIT>>>>
UnitsRoot ==
  { [filepath |-> f, content |-> Unlines(ls)] :
      f \in {fRoot, fUtil},
      ls \in { lnsInit \o <<lnBlank>>,
               <<lnDoc>> \o lnsInit \o <<lnFunction("util")>>,
               <<lnDoc, lnFunction("util"), lnBlank>> } }

\* Scenario A: link, constructor and one method of Arrow2.
ScenarioA ==
  [ filepath |-> fArrow2,
    content  |-> Unlines(<<lnLink("Arrow2", pBase), lnDoc,
                           lnConstructor("Arrow2"), lnEnd,
                           lnMethod("Arrow2", "dispose"), lnEnd>>) ]
\* Scenario B: a single plain function.
ScenarioB ==
  [ filepath |-> fUtil, content |-> Unlines(<<lnFunction("util")>>) ]

Units ==
  UnitsInheritance \cup UnitsLayout \cup UnitsPlain \cup UnitsRoot
    \cup {ScenarioA, ScenarioB}

\* Number of transpileToEs6 calls in one run of the pipe task.
MaxFiles == 2

\* ------------------------------------------------------------- the state

VARIABLES
  index,       \* inheritance.index
  internal,    \* dependencies.internal
  log,         \* what the current call has written with console.log
  calls,       \* number of source units handed to transpileToEs6 so far
  pass,        \* 1: content comes from a source unit; 2: from the last output
  filepath,    \* argument of the current call
  content,     \* argument of the current call
  pc,          \* the replace call in progress
  transpiled,  \* the string the current replace call works on
  lastIndex,   \* position of the next match attempt in transpiled
  result,      \* what the current replace call has built so far
  state,       \* closure state of transpile.classes
  tagged,      \* history: the names whose constructor this call has tagged
  run,         \* 0: one run of the pipe task; 1, 2: first and second of two
  todo,        \* the units the pipe task has still to hand over in this run
  again,       \* the units, in order, of the second run
  outs,        \* history: what the earlier calls of this run returned
  first        \* history: the tables and outs the first run ended with

vars == <<index, internal, log, calls, pass, filepath, content, pc,
          transpiled, lastIndex, result, state, tagged,
          run, todo, again, outs, first>>

tables == <<index, internal>>

runs == <<run, todo, again, outs, first>>

Init ==
  /\ index = <<>>
  /\ internal = <<>>
  /\ log = <<>>
  /\ calls = 0
  /\ pass = 1
  /\ filepath = fRoot
  /\ content = <<>>
  /\ pc = "idle"
  /\ transpiled = <<>>
  /\ lastIndex = 1
  /\ result = <<>>
  /\ state = [isInClass |-> FALSE, matchedFirstComment |-> FALSE]
  /\ tagged = <<>>
  /\ run = 0
  /\ todo = <<>>
  /\ again = <<>>
  /\ outs = <<>>
  /\ first = [index |-> <<>>, internal |-> <<>>, outs |-> <<>>]

\* Entry of transpileToEs6(content, filepath): the banner is logged, the
\* closures are created (transpile.classes with a fresh state).
\* A call that runs the root declaration stage on every unit.
EnterRootStageAlways(f, c, p) ==
  /\ calls' = IF p = 1 THEN calls + 1 ELSE calls
  /\ pass' = p
  /\ filepath' = f
  /\ content' = c
  /\ transpiled' = c
  /\ log' = <<[kind |-> "Processing", what |-> FullPath(f)]>>
  /\ pc' = "initialROS3DAssignment"
  /\ lastIndex' = 1
  /\ result' = <<>>
  /\ state' = [isInClass |-> FALSE, matchedFirstComment |-> FALSE]
  /\ tagged' = <<>>
  /\ UNCHANGED tables

Enter(f, c, p) ==
  /\ calls' = IF p = 1 THEN calls + 1 ELSE calls
  /\ pass' = p
  /\ filepath' = f
  /\ content' = c
  /\ transpiled' = c
  /\ log' = <<[kind |-> "Processing", what |-> FullPath(f)]>>
  /\ pc' = IF FullPath(f) = "src/Ros3D.js" THEN "initialROS3DAssignment"
           ELSE "internalDependencies"
  /\ lastIndex' = 1
  /\ result' = <<>>
  /\ state' = [isInClass |-> FALSE, matchedFirstComment |-> FALSE]
  /\ tagged' = <<>>
  /\ UNCHANGED tables

\* The pipe task calls transpileToEs6 on the next source unit.
TranspileToEs6 ==
  /\ pc \in {"idle", "returned"}
  /\ calls < MaxFiles
  /\ run = 0
  /\ \E u \in Units : Enter(u.filepath, u.content, 1)
  /\ UNCHANGED runs

\* String.prototype.replace with a global expression: one callback.
Replaced(m, e, rep) ==
  /\ result' = result \o SubSeq(transpiled, lastIndex, m - 1) \o rep
  /\ lastIndex' = e
  /\ UNCHANGED <<transpiled, pc, calls, pass, filepath, content>>
  /\ UNCHANGED runs

\* No match is left: the replace call returns and the next one starts.
Finished(next) ==
  /\ transpiled' = result \o SubSeq(transpiled, lastIndex, Len(transpiled))
  /\ result' = <<>>
  /\ lastIndex' = 1
  /\ pc' = next
  /\ UNCHANGED <<calls, pass, filepath, content>>
  /\ UNCHANGED runs

Positions == lastIndex..Len(transpiled)

\* .replace(...transpile.initialROS3DAssignment): no g flag, first match only.
InitialROS3DAssignment ==
  /\ pc = "initialROS3DAssignment"
  /\ LET m == Leftmost({i \in Positions : initialAt(transpiled, i)})
     IN  transpiled' =
           IF m = 0 THEN transpiled
           ELSE SubSeq(transpiled, 1, m - 1) \o <<EXPORTREV>>
                  \o SubSeq(transpiled, initialEnd(transpiled, m), Len(transpiled))
  /\ pc' = "internalDependencies"
  /\ UNCHANGED <<index, internal, log, calls, pass, filepath, content,
                 lastIndex, result, state, tagged>>
  /\ UNCHANGED runs

InternalDependencies ==
  /\ pc = "internalDependencies"
  /\ UNCHANGED <<index, log, state, tagged>>
  /\ LET m == Leftmost({i \in Positions : depAt(transpiled, i)})
     IN  \/ /\ m # 0
            /\ internal' = dependenciesTrack(internal, FullPath(filepath),
                                             depName(transpiled, m))
            /\ Replaced(m, depEnd(transpiled, m), <<depName(transpiled, m)>>)
         \/ /\ m = 0
            /\ Finished("buildInheritanceIndexViaProto")
            /\ UNCHANGED internal

BuildInheritanceIndexViaProto ==
  /\ pc = "buildInheritanceIndexViaProto"
  /\ UNCHANGED <<internal, log, state, tagged>>
  /\ LET m == Leftmost({i \in Positions : protoAt(transpiled, i)})
     IN  \/ /\ m # 0
            /\ index' = track(index, protoChild(transpiled, m),
                              protoParent(transpiled, m))
            /\ Replaced(m, protoEnd(transpiled, m), <<>>)
         \/ /\ m = 0
            /\ Finished("buildInheritanceIndexViaObjectAssign")
            /\ UNCHANGED index

BuildInheritanceIndexViaObjectAssign ==
  /\ pc = "buildInheritanceIndexViaObjectAssign"
  /\ UNCHANGED <<internal, log, state, tagged>>
  /\ LET m == Leftmost({i \in Positions : assignAt(transpiled, i)})
     IN  \/ /\ m # 0
            /\ index' = track(index, assignChild(transpiled, m),
                              assignParent(transpiled, m))
            /\ Replaced(m, assignEnd(transpiled, m), <<>>)
         \/ /\ m = 0
            /\ Finished("methods")
            /\ UNCHANGED index

Methods ==
  /\ pc = "methods"
  /\ UNCHANGED <<internal, log, state, tagged>>
  /\ LET m == Leftmost({i \in Positions : methodAt(transpiled, i)})
     IN  \/ /\ m # 0
            /\ methodName(transpiled, m) = "__proto__"
            /\ Replaced(m, methodEnd(transpiled, m),
                        SubSeq(transpiled, m, methodEnd(transpiled, m) - 1))
            /\ UNCHANGED index
         \/ /\ m # 0
            /\ methodName(transpiled, m) # "__proto__"
            /\ index' = track(index, methodOwner(transpiled, m), NULL)
            /\ Replaced(m, methodEnd(transpiled, m), <<methodName(transpiled, m)>>)
         \/ /\ m = 0
            /\ Finished("constructors")
            /\ UNCHANGED index

\* console.log('CLASS MISMATCH') and the JSON that follows it.
classMismatch(f, name, isClass1, isClass2) ==
  [kind |-> "CLASS MISMATCH", what |-> name]

\* A callback that tags by the file's name instead of the index.
constructorReturnByFile(match, idx, f, name) ==
  IF isFileClass(f, name) THEN <<CONSTRUCTOR>> ELSE match

\* What the callback of transpile.constructors returns.
constructorReturn(match, idx, f, name) ==
  IF isClass(idx, name) THEN <<CONSTRUCTOR>> ELSE match

Constructors ==
  /\ pc = "constructors"
  /\ UNCHANGED <<index, internal, state>>
  /\ LET m == Leftmost({i \in Positions : constructorAt(transpiled, i)})
     IN  \/ /\ m # 0
            /\ LET name     == constructorName(transpiled, m)
                   isClass1 == isClass(index, name)
                   isClass2 == isFileClass(filepath, name)
                   match    == SubSeq(transpiled, m, constructorEnd(transpiled, m) - 1)
               IN  /\ log' = IF isClass1 # isClass2
                             THEN Append(log, classMismatch(filepath, name,
                                                            isClass1, isClass2))
                             ELSE log
                   /\ Replaced(m, constructorEnd(transpiled, m),
                               constructorReturn(match, index, filepath, name))
                   /\ tagged' = IF constructorReturn(match, index, filepath, name)
                                     = <<CONSTRUCTOR>>
                                THEN Append(tagged, name) ELSE tagged
         \/ /\ m = 0
            /\ Finished("parentConstructors")
            /\ UNCHANGED <<log, tagged>>

\* A comparison that also accepts any call when no parent is recorded.
isSuperCallOrNoParent(ref, parent) == ref = parent \/ ~Truthy(parent)

\* if ($1 === parent)
isSuperCall(ref, parent) == ref = parent

ParentConstructors ==
  /\ pc = "parentConstructors"
  /\ UNCHANGED <<index, internal, state, tagged>>
  /\ LET m == Leftmost({i \in Positions : parentCallAt(transpiled, i)})
         child  == getFileClass(filepath)
         parent == getParent(index, child)
     IN  \/ /\ m # 0
            /\ isSuperCall(parentCallRef(transpiled, m), parent)
            /\ Replaced(m, parentCallEnd(transpiled, m),
                        superCall(parentCallIndent(transpiled, m),
                                  superArgs(parentCallRest(transpiled, m))))
            /\ UNCHANGED log
         \/ /\ m # 0
            /\ ~isSuperCall(parentCallRef(transpiled, m), parent)
            /\ log' = Append(log, [kind |-> "removing extra parent constructor call",
                                   what |-> parentCallRef(transpiled, m)])
            /\ Replaced(m, parentCallEnd(transpiled, m), <<>>)
         \/ /\ m = 0
            /\ Finished("classes")
            /\ UNCHANGED log

\* One match of the classes expression.  The expression matches at every
\* position, the empty string included; after an empty match the character
\* at lastIndex is copied and lastIndex moves on by one.
Classes ==
  /\ pc = "classes"
  /\ UNCHANGED <<index, internal, log, calls, pass, filepath, content, tagged>>
  /\ UNCHANGED runs
  /\ \/ /\ lastIndex <= Len(transpiled) + 1
        /\ LET p     == lastIndex
               e     == classesEnd(transpiled, p)
               kind  == classesKind(transpiled, p)
               match == SubSeq(transpiled, p, e - 1)
               className == getFileClass(filepath)
               parent    == getParent(index, className)
           IN  /\ result' = result
                              \o classesReturn(match, kind, state, className, parent)
                              \o (IF e = p /\ p <= Len(transpiled)
                                  THEN <<transpiled[p]>> ELSE <<>>)
               /\ state' = classesState(kind, state)
               /\ lastIndex' = IF e = p THEN p + 1 ELSE e
        /\ UNCHANGED <<transpiled, pc>>
     \/ /\ lastIndex > Len(transpiled) + 1
        /\ transpiled' = result
        /\ result' = <<>>
        /\ lastIndex' = 1
        /\ pc' = "returned"
        /\ UNCHANGED state

Next ==
  \/ TranspileToEs6
  \/ InitialROS3DAssignment
  \/ InternalDependencies
  \/ BuildInheritanceIndexViaProto
  \/ BuildInheritanceIndexViaObjectAssign
  \/ Methods
  \/ Constructors
  \/ ParentConstructors
  \/ Classes

Spec == Init /\ [][Next]_vars

\* The output of the call that has just returned is handed to transpileToEs6
\* again, for the same file.
Retranspile ==
  /\ pc = "returned"
  /\ pass = 1
  /\ Enter(filepath, transpiled, 2)
  /\ UNCHANGED runs

NextRefeed == Next \/ Retranspile

SpecRefeed == Init /\ [][NextRefeed]_vars


\* ------------------------------------------------- two runs of the pipe task
\* The pipe task is run twice, each time by a fresh process (both tables
\* empty), on file lists that are to be compared: `todo` is handed over one
\* unit at a time, in order; what each call returned is kept in `outs`, and
\* what the first run ended with is kept in `first`.

\* A file that installs a capability into a class declared elsewhere.
unitMixin ==
  ClassUnit(fMarker, "Marker",
            <<lnLink("Marker", pObject3D), lnMerge("Arrow2", pDisp)>>,
            TRUE, <<>>, <<>>, <<lnBlank>>)
\* A file that adds a method to a function declared elsewhere.
unitMethod ==
  [filepath |-> fMarker,
   content  |-> Unlines(<<lnMethod("util", "dispose"), lnEnd>>)]
unitRoot == [filepath |-> fRoot, content |-> Unlines(lnsInit \o <<lnBlank>>)]

UnitsOrder == {ScenarioA, ScenarioB, unitMixin, unitMethod, unitRoot}

\* The file lists: MaxFiles units of different files, in some order.
FileLists(U) ==
  {s \in [1..MaxFiles -> U] :
     \A i, j \in 1..MaxFiles : i # j => s[i].filepath # s[j].filepath}
SameUnits(s, t) == {s[i] : i \in DOMAIN s} = {t[i] : i \in DOMAIN t}

\* What the call that has just returned produced.
Out == [filepath |-> filepath, content |-> content,
        transpiled |-> transpiled, tagged |-> tagged, log |-> log]

StartRuns(s, t) ==
  /\ pc = "idle"
  /\ run = 0
  /\ calls = 0
  /\ run' = 1
  /\ todo' = s
  /\ again' = t
  /\ UNCHANGED <<index, internal, log, calls, pass, filepath, content, pc,
                 transpiled, lastIndex, result, state, tagged, outs, first>>

\* The same file list in two different orders.
StartOrders ==
  \E s, t \in FileLists(UnitsOrder) :
    /\ SameUnits(s, t)
    /\ s # t
    /\ StartRuns(s, t)

\* A pipe task that stops after a unit whose call logged a diagnostic.
NextUnitAfterCleanUnit ==
  /\ run \in {1, 2}
  /\ pc \in {"idle", "returned"}
  /\ todo # <<>>
  /\ Len(log) <= 1
  /\ Enter(Head(todo).filepath, Head(todo).content, 1)
  /\ todo' = Tail(todo)
  /\ outs' = IF pc = "returned" THEN Append(outs, Out) ELSE outs
  /\ UNCHANGED <<run, again, first>>

\* The pipe task calls transpileToEs6 on the next unit of its list.
NextUnit ==
  /\ run \in {1, 2}
  /\ pc \in {"idle", "returned"}
  /\ todo # <<>>
  /\ Enter(Head(todo).filepath, Head(todo).content, 1)
  /\ todo' = Tail(todo)
  /\ outs' = IF pc = "returned" THEN Append(outs, Out) ELSE outs
  /\ UNCHANGED <<run, again, first>>

\* The first run is over; a fresh process starts the second.
SecondRun ==
  /\ run = 1
  /\ pc = "returned"
  /\ todo = <<>>
  /\ first' = [index |-> index, internal |-> internal,
               outs |-> Append(outs, Out)]
  /\ run' = 2
  /\ todo' = again
  /\ outs' = <<>>
  /\ index' = <<>>
  /\ internal' = <<>>
  /\ log' = <<>>
  /\ calls' = 0
  /\ pc' = "idle"
  /\ transpiled' = <<>>
  /\ UNCHANGED <<pass, filepath, content, lastIndex, result, state, tagged,
                 again>>

Stages ==
  \/ InitialROS3DAssignment
  \/ InternalDependencies
  \/ BuildInheritanceIndexViaProto
  \/ BuildInheritanceIndexViaObjectAssign
  \/ Methods
  \/ Constructors
  \/ ParentConstructors
  \/ Classes

NextOrders == StartOrders \/ NextUnit \/ SecondRun \/ Stages

SpecOrders == Init /\ [][NextOrders]_vars

\* The same class file written twice: with the capability-merge statement
\* for (Arrow2, THREE.EventDispatcher), and with the direct-link statement
\* for the same pair in its place; alone, before a direct link to another
\* parent, and after one.
MergeUnit(stmt, before, after) ==
  ClassUnit(fArrow2, "Arrow2", before \o <<stmt>> \o after, TRUE,
            <<lnCall(pDisp, "this", noArgs)>>, <<>>, <<lnBlank>>)
MergePairs ==
  { <<MergeUnit(lnMerge("Arrow2", pDisp), before, after),
      MergeUnit(lnLink("Arrow2", pDisp), before, after)>> :
      before \in {<<>>, <<lnLink("Arrow2", pBase)>>},
      after  \in {<<>>, <<lnLink("Arrow2", pObject3D)>>} }

\* The units processed before it, which decide the state of the index.
PriorLists == FileLists({unitRoot, unitMixin, unitMethod})

\* Two runs that differ in that one statement.
StartMerge ==
  \E prior \in PriorLists, pr \in MergePairs :
    StartRuns(SubSeq(prior, 1, MaxFiles - 1) \o <<pr[1]>>,
              SubSeq(prior, 1, MaxFiles - 1) \o <<pr[2]>>)

NextMerge == StartMerge \/ NextUnit \/ SecondRun \/ Stages

SpecMerge == Init /\ [][NextMerge]_vars

\* Both runs are over.
RunsDone == run = 2 /\ pc = "returned" /\ todo = <<>>
\* What the calls of the second run returned.
SecondOuts == Append(outs, Out)

\* ------------------------------------------------------------ properties

\* What the step from this state to the next has appended to result.
Appended == SubSeq(result', Len(result) + 1, Len(result'))

\* A step of the replace call named stage that invoked its callback.
CallbackStep(stage) == pc = stage /\ pc' = stage

Count(toks, t) == Cardinality({i \in 1..Len(toks) : toks[i] = t})

\* The qualified reference at i is the left-hand side of an assignment: the
\* name, its member accesses, then the assignment operator.
IsAssignTarget(src, i) ==
  /\ i + 1 <= Len(src)
  /\ src[i] = NS
  /\ LET e == SkipWhile(src, i + 1, WordTokens \cup {PROTO, "."})
     IN  e <= Len(src) /\ src[e] = " = "

\* C1: once inheritance.track has recorded a concrete parent name for a
\* symbol, every later step leaves that symbol's recorded parent as it is,
\* whatever statements and files follow.
C1_FirstWins ==
  [][\A sym \in DOMAIN index :
       Truthy(index[sym]) => Get(index', sym) = index[sym]]_vars

\* A direct link naming another parent has just been handled for a symbol
\* whose parent was already recorded.
C1_Witness ==
  /\ pc = "buildInheritanceIndexViaProto"
  /\ \E i \in 1..(lastIndex - 1) :
       /\ protoAt(transpiled, i)
       /\ protoEnd(transpiled, i) = lastIndex
       /\ Truthy(Get(index, protoChild(transpiled, i)))
       /\ Get(index, protoChild(transpiled, i)) # protoParent(transpiled, i)

\* C2: in every callback step of the dependency stage, the occurrence that
\* is rewritten (the one that ends the consumed text) is not the left-hand
\* target of an assignment, the only edge the step may add is the rewritten
\* name, and every assignment target the step passes over is copied with its
\* namespace prefix.
C2_DependencySoundness ==
  [][CallbackStep("internalDependencies") =>
       LET m == lastIndex' - 2
           f == FullPath(filepath)
       IN  /\ ~IsAssignTarget(transpiled, m)
           /\ \A i \in 1..Len(Get(internal', f)) :
                \/ Includes(IF Get(internal, f) = UNDEFINED THEN <<>>
                            ELSE internal[f], internal'[f][i])
                \/ internal'[f][i] = transpiled[m + 1]
           /\ \A g \in DOMAIN internal' \ {f} : Get(internal, g) = internal'[g]
           /\ \A i \in lastIndex..(lastIndex' - 1) :
                IsAssignTarget(transpiled, i) =>
                  /\ i - lastIndex + 2 <= Len(Appended)
                  /\ Appended[i - lastIndex + 1] = NS
                  /\ Appended[i - lastIndex + 2] = transpiled[i + 1]]_vars

\* The dependency stage has finished on a unit that holds an assignment
\* target, still qualified, and a read reference, recorded as an edge.
C2_Witness ==
  /\ pc = "buildInheritanceIndexViaProto"
  /\ lastIndex = 1
  /\ result = <<>>
  /\ \E i \in 1..Len(transpiled) : IsAssignTarget(transpiled, i)
  /\ Get(internal, FullPath(filepath)) # UNDEFINED
  /\ Len(transpiled) < Len(content)

\* Position of the class header in toks (0 if there is none).
HeaderAt(toks) == Leftmost({i \in 1..Len(toks) : toks[i] = EXPORTCLASS})

\* The name whose tagged constructor stands right after the header at h:
\* constructors are tagged in text order, so it is the (k+1)-th tagged name
\* when k constructor markers stand before the header.
OpenedChild(toks, h) == tagged[Count(SubSeq(toks, 1, h - 1), CONSTRUCTOR) + 1]

\* C3: when the class stage has opened a block at the tagged constructor of
\* Child, the header carries an inheritance clause naming P exactly when the
\* index records the concrete parent P for Child, and carries none when
\* Child has no recorded parent; Child need not be the file's class.
C3_InheritanceFidelity ==
  (pc = "classes" /\ pass = 1 /\ state.matchedFirstComment) =>
    LET h == HeaderAt(result)
        P == getParent(index, OpenedChild(result, h))
    IN  IF Truthy(P)
        THEN SubSeq(result, h + 2, h + 4) = <<EXTENDSKW, P, OPENBRACE>>
        ELSE result[h + 2] = OPENBRACE

\* C4: the output of transpileToEs6, handed to transpileToEs6 again for the
\* same file, comes back unchanged.
C4_Idempotence ==
  (pass = 2 /\ pc = "returned") => transpiled = content

\* The second pass has returned on a text that holds a class block with an
\* inheritance clause and a super call.
C4_Witness ==
  /\ pass = 2
  /\ pc = "returned"
  /\ Count(content, EXPORTCLASS) = 1
  /\ Count(content, EXTENDSKW) = 1
  /\ Count(content, SUPER) = 1
  /\ Count(content, CLOSEBRACE) >= 2

\* A line of src starts at s and is a superclass-call statement: optional
\* indentation, a reference, ".call(" and the receiver.
LineCallRefStart(src, s) == SkipWhile(src, s, SpaceTokens \ {NL})
LineCallRefEnd(src, s) == SkipWhile(src, LineCallRefStart(src, s), RefTokens)
LineCallAt(src, s) ==
  /\ s = 1 \/ src[s - 1] = NL
  /\ LET r == LineCallRefStart(src, s)
         c == LineCallRefEnd(src, s)
     IN  /\ c > r
         /\ c + 1 <= Len(src)
         /\ src[c] = CALL
         /\ src[c + 1] \in {"this", "that"}
LineCallRef(src, s) ==
  Join(SubSeq(src, LineCallRefStart(src, s), LineCallRefEnd(src, s) - 1))

ScenarioAOutput ==
  <<EXPORTCLASS, "Arrow2", EXTENDSKW, "Base", OPENBRACE, NL,
    NL,
    INDENT, DOC, NL,
    INDENT, CONSTRUCTOR, "(", "options", ")", OPENBRACE, INDENT, NL,
    INDENT, CLOSEBRACE, ";", INDENT, NL,
    INDENT, "dispose", "(", ")", OPENBRACE, INDENT, NL,
    INDENT, CLOSEBRACE, ";", NL,
    CLOSEBRACE, NL>>

C8_NoOpOnNonClassUnits ==
  [][(pc = "classes" /\ pc' = "returned" /\ tagged = <<>>) =>
       transpiled' = transpiled]_vars

\* A call that tagged no constructor has returned a text with a
\* documentation comment and a function, ending in a newline.
C8_Witness ==
  /\ pc = "returned"
  /\ pass = 1
  /\ tagged = <<>>
  /\ Count(transpiled, DOC) = 1
  /\ Count(transpiled, "function") = 1
  /\ transpiled[Len(transpiled)] = NL

\* A documentation comment stands at p, followed by white space and a
\* constructor marker.
PairAt(src, p) ==
  /\ p <= Len(src)
  /\ src[p] = DOC
  /\ \E c \in (p + 1)..Len(src) :
       /\ src[c] = CONSTRUCTOR
       /\ \A j \in (p + 1)..(c - 1) : IsSpace(src[j])

\* C9: while the class stage sweeps a source unit, its result holds at most
\* one class header; and a callback that meets a comment/constructor pair
\* after a block has been opened appends the pair as body text, indented,
\* with no header.
C9_AtMostOneClassBlock ==
  [][(pc' = "classes" /\ pass' = 1) =>
       /\ Count(result', EXPORTCLASS) <= 1
       /\ (pc = "classes" /\ state.matchedFirstComment
             /\ PairAt(transpiled, lastIndex)) =>
            /\ Appended = <<INDENT>>
                 \o SubSeq(transpiled, lastIndex, lastIndex' - 1)
            /\ Count(Appended, CONSTRUCTOR) = 1
            /\ Count(Appended, EXPORTCLASS) = 0
            /\ state' = state]_vars

\* The sweep has passed two comment/constructor pairs and emitted one header.
C9_Witness ==
  /\ pc = "classes"
  /\ Count(result, EXPORTCLASS) = 1
  /\ Count(result, DOC) = 2
  /\ Count(result, CONSTRUCTOR) = 2

\* The positions of toks that hold a closing delimiter on a line of its own.
CloseLines(toks) ==
  {i \in 1..Len(toks) :
     /\ toks[i] = CLOSEBRACE
     /\ i = 1 \/ toks[i - 1] = NL
     /\ i = Len(toks) \/ toks[i + 1] = NL}

\* C10: in every sweep of the class stage over a source unit, each step
\* either moves the match position forward, within the input's length plus
\* two, or ends the sweep (so the sweep ends); a closing delimiter is in the
\* result only if a block was opened and the input has been read to its end,
\* there is never more than one, and when the sweep ends the state is "not
\* inside a block" and the result of a sweep that opened a block holds
\* exactly one closing delimiter, as its last line.
C10_GuaranteedClose ==
  [][(pc = "classes" /\ pass = 1) =>
       LET out == IF pc' = "returned" THEN transpiled' ELSE result'
           n   == Cardinality(CloseLines(out))
       IN  /\ \/ pc' = "returned"
              \/ lastIndex < lastIndex' /\ lastIndex' <= Len(transpiled) + 2
           /\ n <= 1
           /\ n = 1 => /\ state.matchedFirstComment
                       /\ lastIndex' > Len(transpiled) \/ pc' = "returned"
           /\ pc' = "returned" =>
                /\ ~state'.isInClass
                /\ state'.matchedFirstComment =>
                     /\ n = 1
                     /\ Len(out) \in CloseLines(out) \cup
                          {i + 1 : i \in CloseLines(out)}]_vars

\* A sweep that opened a block has ended on an input with trailing newlines.
C10_Witness ==
  /\ pc = "returned"
  /\ pass = 1
  /\ state.matchedFirstComment
  /\ ~state.isInClass
  /\ content[Len(content)] = NL
  /\ Cardinality(CloseLines(transpiled)) = 1

\* C11: no step, in any stage of any call or between calls, removes a symbol
\* from the index, turns a class back into a non-class, changes a recorded
\* concrete parent, removes a file from dependencies.internal or removes a
\* name from a file's list.
C11_MonotonicSharedState ==
  [][/\ \A sym \in DOMAIN index :
          /\ isClass(index', sym)
          /\ Truthy(index[sym]) => Get(index', sym) = index[sym]
     /\ \A f \in DOMAIN internal :
          /\ f \in DOMAIN internal'
          /\ \A i \in 1..Len(internal[f]) :
               Includes(internal'[f], internal[f][i])]_vars

\* The second call of a run has returned with the entries of both calls in
\* both tables.
C11_Witness ==
  /\ pc = "returned"
  /\ calls = 2
  /\ Cardinality(DOMAIN index) >= 2
  /\ Cardinality(DOMAIN internal) >= 2

\* C12: when the same units have been processed in two different orders,
\* the two runs end with the same index: the same symbols are classes, with
\* the same recorded parent.
C12_OrderConsistency ==
  RunsDone =>
    \A sym \in DOMAIN index \cup DOMAIN first.index :
      Get(index, sym) = Get(first.index, sym)

\* The class structure of what a call returned: whether a class header was
\* emitted, the parent its inheritance clause names (NULL if it has none),
\* the constructors tagged, and how many superclass calls were rewritten to
\* super calls and how many were kept as written.
ClauseOf(toks) ==
  LET e == Leftmost({i \in 1..Len(toks) : toks[i] = EXTENDSKW})
  IN  IF e = 0 THEN NULL ELSE toks[e + 1]
Structure(o) ==
  [header |-> Count(o.transpiled, EXPORTCLASS) > 0,
   clause |-> ClauseOf(o.transpiled),
   tagged |-> o.tagged,
   supers |-> Count(o.transpiled, SUPER),
   kept   |-> Count(o.transpiled, CALL)]

\* C13: when the same units have been processed in two different orders,
\* each unit's output has the same class structure in both runs.
C13_OrderAffectsDiagnosticsOnly ==
  RunsDone =>
    \A i \in 1..Len(first.outs), j \in 1..Len(SecondOuts) :
      (/\ first.outs[i].filepath = SecondOuts[j].filepath
       /\ first.outs[i].content = SecondOuts[j].content)
        => Structure(first.outs[i]) = Structure(SecondOuts[j])

\* The head of a function assignment stands at i: the namespace prefix, a
\* name, the assignment operator and the keyword.
HeadAt(src, i) ==
  /\ i + 3 <= Len(src)
  /\ src[i] = NS
  /\ IsWord(src[i + 1])
  /\ src[i + 2] = " = "
  /\ src[i + 3] = "function"

\* C14: the constructors stage passes over no function-assignment head
\* without a callback, one head per callback.  The callback writes the
\* constructor marker in place of the head exactly when the name is a class
\* in the index at that moment, and otherwise the head as it was written; it
\* logs a class mismatch exactly when that flag differs from "the name is
\* the file's name"; it leaves the index alone and the stage goes on.
C14_ConstructorTagging ==
  [][pc = "constructors" =>
       LET upto == IF pc' = pc THEN lastIndex' - 1 ELSE Len(transpiled)
           H    == {i \in lastIndex..upto : HeadAt(transpiled, i)}
       IN  /\ index' = index
           /\ H = {} => log' = log /\ tagged' = tagged
           /\ \A i \in H :
                LET name   == transpiled[i + 1]
                    before == SubSeq(transpiled, lastIndex, i - 1)
                    head   == SubSeq(transpiled, i, i + 3)
                IN  /\ pc' = pc
                    /\ H = {i}
                    /\ lastIndex' = i + 4
                    /\ IF isClass(index, name)
                       THEN /\ Appended = before \o <<CONSTRUCTOR>>
                            /\ tagged' = Append(tagged, name)
                       ELSE /\ Appended = before \o head
                            /\ tagged' = tagged
                    /\ log' = IF isClass(index, name) # (name = filepath.base)
                              THEN Append(log, [kind |-> "CLASS MISMATCH",
                                                what |-> name])
                              ELSE log]_vars

\* The stage has tagged a constructor whose name is not the file's and has
\* logged the mismatch.
C14_Witness ==
  /\ pc = "constructors"
  /\ tagged # <<>>
  /\ tagged[Len(tagged)] # filepath.base
  /\ log[Len(log)] = [kind |-> "CLASS MISMATCH", what |-> tagged[Len(tagged)]]

\* Position of the first constructor marker in toks (0 if there is none).
FirstMarker(toks) == Leftmost({i \in 1..Len(toks) : toks[i] = CONSTRUCTOR})

\* C15: in a call that has tagged a constructor, once the sweep of the class
\* stage has passed the first constructor marker, its result holds a class
\* header that stands no later than that marker; the text before the header
\* is the input text, unchanged; and every line after the header, other than
\* an empty line and the closing delimiter, begins with the indentation.
C15_WrapsEveryTaggedConstructor ==
  (pc = "classes" /\ pass = 1 /\ tagged # <<>>
     /\ lastIndex > FirstMarker(transpiled)) =>
    LET h == HeaderAt(result)
    IN  /\ h # 0
        /\ h <= FirstMarker(transpiled)
        /\ SubSeq(result, 1, h - 1) = SubSeq(transpiled, 1, h - 1)
        /\ \A i \in (h + 1)..Len(result) :
             (result[i - 1] = NL /\ result[i] # NL
                /\ i \notin CloseLines(result)) => result[i] = INDENT

\* The first position of the line of src that holds position e.
LineStart(src, e) == Max({s \in 1..e : s = 1 \/ src[s - 1] = NL})

\* The arguments a1, ..., an of the superclass call on the line that starts
\* at s, as written: what stands between the receiver with its comma and
\* the closing ");" of the statement.
CallArgs(src, s) ==
  LET r == LineCallRefEnd(src, s) + 2
      e == EolOf(src, s)
  IN  IF src[r] = "," THEN SubSeq(src, r + 2, e - 3) ELSE <<>>

\* C16: a callback of the superclass-call stage that writes a super call
\* writes the indentation of the statement, "super(", the arguments of the
\* statement as they were written, and ");".
C16_SuperCallArguments ==
  [][(CallbackStep("parentConstructors") /\ Count(Appended, SUPER) = 1) =>
       LET s == LineStart(transpiled, lastIndex' - 1)
           k == Leftmost({i \in 1..Len(Appended) : Appended[i] = SUPER})
       IN  /\ SubSeq(Appended, k + 1, Len(Appended))
                = CallArgs(transpiled, s) \o <<")", ";">>
           /\ k >= 2
           /\ Appended[k - 1] = INDENT
           /\ Appended[k - 2] = NL]_vars

\* A direct-link statement stands at i: the qualified child, ".prototype",
\* ".__proto__", the assignment operator, the parent as written and
\* ".prototype;" at the end of the line.
LinkAt(src, i) ==
  /\ i + 7 <= Len(src)
  /\ SubSeq(src, i, i + 5) = <<NS, src[i + 1], PROTO, ".", "__proto__", " = ">>
  /\ IsWord(src[i + 1])
  /\ EolOf(src, i) - 2 > i + 5
  /\ SubSeq(src, EolOf(src, i) - 2, EolOf(src, i) - 1) = <<PROTO, ";">>
LinkChild(src, i)  == src[i + 1]
LinkParent(src, i) == Join(SubSeq(src, i + 6, EolOf(src, i) - 3))

\* C17: the direct-link stage passes over no direct-link statement without
\* a callback, one statement per callback.  The callback writes nothing in
\* place of the statement and of the newline that ends it.  If the index
\* holds no concrete parent for the child (no entry, or null), the child's
\* entry becomes the parent of the statement and no other entry changes; if
\* it holds one, the index is unchanged.
C17_DirectLinkDiscovery ==
  [][pc = "buildInheritanceIndexViaProto" =>
       LET upto == IF pc' = pc THEN lastIndex' - 1 ELSE Len(transpiled)
           L    == {i \in lastIndex..upto : LinkAt(transpiled, i)}
       IN  /\ L = {} => index' = index
           /\ \A i \in L :
                LET child  == LinkChild(transpiled, i)
                    parent == LinkParent(transpiled, i)
                    e      == EolOf(transpiled, i)
                IN  /\ pc' = pc
                    /\ L = {i}
                    /\ Appended = SubSeq(transpiled, lastIndex, i - 1)
                    /\ lastIndex' = IF e <= Len(transpiled) THEN e + 1 ELSE e
                    /\ IF Truthy(Get(index, child))
                       THEN index' = index
                       ELSE /\ index' = Put(index, child, parent)
                            /\ isClass(index', child)]_vars

\* The stage has just handled a direct link for a child that an earlier
\* unit (Marker.js, with a method of Marker and a read of ROS3D.f) had made
\* a class without a parent, and the index now holds the parent of the
\* statement.
C17_Witness ==
  /\ pc = "buildInheritanceIndexViaProto"
  /\ calls = 2
  /\ tagged = <<>>
  /\ \E i \in 1..(lastIndex - 1) :
       /\ LinkAt(transpiled, i)
       /\ lastIndex = EolOf(transpiled, i) + 1
       /\ LinkChild(transpiled, i) = "Marker"
       /\ Get(index, "Marker") = LinkParent(transpiled, i)
  /\ "src/markers/Marker.js" \in DOMAIN internal
  /\ Includes(internal["src/markers/Marker.js"], "f")

\* C18: when a run has processed a unit with the capability-merge statement
\* for (Child, Parent) and another run, from the same index, the same unit
\* with the direct-link statement for (Child, Parent) in its place, the two
\* runs end with the same index, and neither output holds the statement.
C18_MergeLikeDirectLink ==
  RunsDone =>
    /\ \A sym \in DOMAIN index \cup DOMAIN first.index :
         Get(index, sym) = Get(first.index, sym)
    /\ Count(transpiled, "__proto__") = 0
    /\ Count(first.outs[Len(first.outs)].transpiled, ASSIGN) = 0

\* The head of a method assignment stands at i: the qualified owner,
\* ".prototype", the method name, the assignment operator and the keyword.
MethodHeadAt(src, i) ==
  /\ i + 6 <= Len(src)
  /\ src[i] = NS
  /\ IsWord(src[i + 1])
  /\ src[i + 2] = PROTO
  /\ src[i + 3] = "."
  /\ IsWord(src[i + 4])
  /\ src[i + 5] = " = "
  /\ src[i + 6] = "function"

\* C19: the methods stage passes over no method-assignment head without a
\* callback, one head per callback.  For a method name other than
\* "__proto__" the callback writes the bare method name in place of the
\* head, the owner is a class afterwards, its recorded parent is what it was
\* (null if it had no entry) and no other entry changes.  For "__proto__"
\* the callback writes the head as it was and the index is unchanged.
C19_MethodTagging ==
  [][pc = "methods" =>
       LET upto == IF pc' = pc THEN lastIndex' - 1 ELSE Len(transpiled)
           H    == {i \in lastIndex..upto : MethodHeadAt(transpiled, i)}
       IN  /\ H = {} => index' = index
           /\ \A i \in H :
                LET owner  == transpiled[i + 1]
                    name   == transpiled[i + 4]
                    before == SubSeq(transpiled, lastIndex, i - 1)
                IN  /\ pc' = pc
                    /\ H = {i}
                    /\ lastIndex' = i + 7
                    /\ IF name = "__proto__"
                       THEN /\ Appended = before \o SubSeq(transpiled, i, i + 6)
                            /\ index' = index
                       ELSE /\ Appended = before \o <<name>>
                            /\ isClass(index', owner)
                            /\ index' = IF isClass(index, owner) THEN index
                                        ELSE Put(index, owner, NULL)]_vars

\* The stage has just rewritten the head of a method whose owner has a
\* recorded parent.
C19_Witness ==
  /\ pc = "methods"
  /\ lastIndex > 7
  /\ MethodHeadAt(transpiled, lastIndex - 7)
  /\ transpiled[lastIndex - 3] # "__proto__"
  /\ result[Len(result)] = transpiled[lastIndex - 3]
  /\ Truthy(Get(index, transpiled[lastIndex - 6]))

\* A qualified reference stands at i and is read: it is not the left-hand
\* side of an assignment.
ReadAt(src, i) ==
  /\ i + 1 <= Len(src)
  /\ src[i] = NS
  /\ IsWord(src[i + 1])
  /\ ~IsAssignTarget(src, i)

\* C20: the dependency stage passes over no read reference without a
\* callback, one reference per callback; the callback writes the bare name
\* in place of the reference, and the name is then in the file's list of
\* dependencies.
C20_DependencyCompleteness ==
  [][pc = "internalDependencies" =>
       LET upto == IF pc' = pc THEN lastIndex' - 1 ELSE Len(transpiled)
           R    == {i \in lastIndex..upto : ReadAt(transpiled, i)}
           f    == FullPath(filepath)
       IN  \A i \in R :
             /\ pc' = pc
             /\ R = {i}
             /\ lastIndex' = i + 2
             /\ Appended = SubSeq(transpiled, lastIndex, i - 1)
                             \o <<transpiled[i + 1]>>
             /\ f \in DOMAIN internal'
             /\ Includes(internal'[f], transpiled[i + 1])]_vars

\* The list dependencies.internal keeps for file f (empty if it has none).
ListOf(deps, f) == IF f \in DOMAIN deps THEN deps[f] ELSE <<>>

\* A read reference stands at i with no "=" after it on its line.
RecordedAt(src, i) ==
  /\ ReadAt(src, i)
  /\ \A j \in i..(EolOf(src, i) - 1) : ~HasEq(src[j])

\* C21: after every step no list of dependencies.internal holds a name
\* twice, and every list is its former self or its former self with one
\* name appended; a callback of the dependency stage appends the name it
\* has matched to the file's list if the list did not hold it, and leaves
\* dependencies.internal as it is if the list held it.
C21_DependencySetSemantics ==
  [][/\ \A f \in DOMAIN internal' :
          \A i, j \in 1..Len(internal'[f]) :
            internal'[f][i] = internal'[f][j] => i = j
     /\ \A f \in DOMAIN internal :
          /\ f \in DOMAIN internal'
          /\ \/ internal'[f] = internal[f]
             \/ /\ Len(internal'[f]) = Len(internal[f]) + 1
                /\ SubSeq(internal'[f], 1, Len(internal[f])) = internal[f]
     /\ CallbackStep("internalDependencies") =>
          LET f    == FullPath(filepath)
              name == transpiled[lastIndex' - 1]
          IN  IF Includes(ListOf(internal, f), name)
              THEN internal' = internal
              ELSE /\ ListOf(internal', f) = Append(ListOf(internal, f), name)
                   /\ \A g \in DOMAIN internal : internal'[g] = ListOf(internal', g)
                   /\ DOMAIN internal' = DOMAIN internal \cup {f}]_vars

\* The dependency stage has just matched, for the second time in the same
\* call, a name the file's list already held.
C21_Witness ==
  /\ pc = "internalDependencies"
  /\ calls = 1
  /\ lastIndex > 2
  /\ RecordedAt(transpiled, lastIndex - 2)
  /\ \E i \in 1..(lastIndex - 3) :
       /\ RecordedAt(transpiled, i)
       /\ transpiled[i + 1] = transpiled[lastIndex - 1]
  /\ ListOf(internal, FullPath(filepath)) = <<transpiled[lastIndex - 1]>>

\* ------------------------------------------------ one run of the pipe task

\* Units that raise the advisory conditions, and units that raise none.
\* Two links of one child to different parents and two calls of constructors
\* that are not the recorded parent's:
unitConflict ==
  ClassUnit(fArrow2, "Arrow2",
            <<lnLink("Arrow2", pBase), lnLink("Arrow2", pObject3D)>>, TRUE,
            <<lnBlank, lnCall(pObject3D, "this", noArgs),
              lnCall(pDisp, "that", noArgs)>>,
            <<>>, <<lnBlank>>)
\* the constructor of a class that is not the file's:
unitMismatch ==
  ClassUnit(fArrow2, "Marker", <<lnLink("Marker", pObject3D)>>, TRUE,
            <<>>, <<>>, <<lnBlank>>)
UnitsAdvisory ==
  {unitConflict, unitMismatch, unitMixin, unitMethod, unitRoot, ScenarioB}

\* The pipe task is given its file list; `again` keeps the list as given.
PipeLists == FileLists(UnitsAdvisory)
StartPipe == \E s \in PipeLists : StartRuns(s, s)

NextPipe == StartPipe \/ NextUnit \/ Stages

\* The task is one sequential, synchronous loop: once it has its list, a
\* step that can be taken is taken.
SpecPipe == Init /\ [][NextPipe]_vars /\ WF_vars(NextUnit \/ Stages)

\* The last unit of the list has returned.
PipeDone == run = 1 /\ pc = "returned" /\ todo = <<>>
PipeOuts == Append(outs, Out)

HasLogged(lg, kind) == \E i \in 1..Len(lg) : lg[i].kind = kind

\* A link or merge callback has just met a statement that names a parent
\* other than the concrete one recorded for its child.
ConflictSeen ==
  \/ /\ pc = "buildInheritanceIndexViaProto"
     /\ \E i \in 1..(lastIndex - 1) :
          /\ LinkAt(transpiled, i)
          /\ EolOf(transpiled, i) + 1 = lastIndex
          /\ Truthy(Get(index, LinkChild(transpiled, i)))
          /\ Get(index, LinkChild(transpiled, i)) # LinkParent(transpiled, i)
  \/ /\ pc = "buildInheritanceIndexViaObjectAssign"
     /\ \E i \in 1..(lastIndex - 1) :
          /\ assignAt(transpiled, i)
          /\ assignEnd(transpiled, i) = lastIndex
          /\ Truthy(Get(index, assignChild(transpiled, i)))
          /\ Get(index, assignChild(transpiled, i)) # assignParent(transpiled, i)
MismatchSeen == HasLogged(log, "CLASS MISMATCH")
ForeignSeen == HasLogged(log, "removing extra parent constructor call")
Advisory == ConflictSeen \/ MismatchSeen \/ ForeignSeen

\* C22: whenever a parent conflict, a class mismatch or a foreign superclass
\* call has occurred in the call on a unit, that call goes on through its
\* remaining stages and returns (a call returns before the next one is
\* made), and the run goes on to its end, where as many calls were made as
\* the file list has units and the list of outputs holds one output for
\* each unit of the file list, in the order of the list.
C22_AdvisoryNeverFatal ==
  /\ (Advisory /\ pc # "returned") ~> (pc = "returned")
  /\ Advisory ~>
       /\ PipeDone
       /\ calls = MaxFiles
       /\ Len(PipeOuts) = MaxFiles
       /\ \A i \in 1..MaxFiles :
            /\ PipeOuts[i].filepath = again[i].filepath
            /\ PipeOuts[i].content = again[i].content

\* The run is over and the call on its first unit had logged a class
\* mismatch or the removal of a foreign superclass call.
C22_Witness ==
  /\ PipeDone
  /\ Len(outs) = MaxFiles - 1
  /\ \/ HasLogged(outs[1].log, "CLASS MISMATCH")
     \/ HasLogged(outs[1].log, "removing extra parent constructor call")

\* The namespace initialisation stands at i: its three lines.
InitPatternAt(src, i) ==
  /\ i + 5 <= Len(src)
  /\ src[i] = "var ROS3D = ROS3D || {"
  /\ src[i + 1] = NL
  /\ src[i + 2] = INDENT
  /\ src[i + 3] = "REVISION : '0.18.0'"
  /\ src[i + 4] = NL
  /\ src[i + 5] = "};"
HasInitPattern(src) == \E i \in 1..Len(src) : InitPatternAt(src, i)

\* A step in which transpileToEs6 is called.
CallStep == pc \in {"idle", "returned"} /\ pc' \notin {"idle", "returned"}

\* C23: the root declaration stage is entered only in the call on
\* src/Ros3D.js; in the call on any other unit the first stage to run is
\* the dependency stage and its input is the unit's text as given, pattern
\* included.  The stage writes the exported revision constant in place of
\* the first namespace initialisation and leaves the rest of the text as it
\* is; if the text holds no namespace initialisation its output is its
\* input.  Neither the call step nor the stage changes the index or the
\* dependency lists.
C23_RootDeclarationStage ==
  [][/\ CallStep =>
          /\ transpiled' = content'
          /\ pc' = IF filepath'.dir = "src/" /\ filepath'.base = "Ros3D"
                        /\ filepath'.ext = ".js"
                   THEN "initialROS3DAssignment" ELSE "internalDependencies"
          /\ index' = index
          /\ internal' = internal
     /\ pc = "initialROS3DAssignment" =>
          /\ pc' = "internalDependencies"
          /\ index' = index
          /\ internal' = internal
          /\ IF HasInitPattern(transpiled)
             THEN LET m == Min({i \in 1..Len(transpiled) :
                                  InitPatternAt(transpiled, i)})
                  IN  transpiled' =
                        SubSeq(transpiled, 1, m - 1)
                          \o <<"export const REVISION = '0.18.0';">>
                          \o SubSeq(transpiled, m + 6, Len(transpiled))
             ELSE transpiled' = transpiled]_vars

\* The stage has replaced the namespace initialisation of the root unit,
\* which stood after other text.
C23_Witness ==
  /\ pc = "internalDependencies"
  /\ lastIndex = 1
  /\ result = <<>>
  /\ FullPath(filepath) = "src/Ros3D.js"
  /\ HasInitPattern(content)
  /\ ~InitPatternAt(content, 1)
  /\ ~HasInitPattern(transpiled)
  /\ Count(transpiled, EXPORTREV) = 1
  /\ Len(transpiled) = Len(content) - 5

\* ------------------------------------------- statements in either order

\* What declares a class: a direct link, a capability merge, a method, a
\* method-like assignment to __proto__, a direct link of another class.
Declarations(n) ==
  { <<lnLink(n, pBase)>>,
    <<lnMerge(n, pDisp)>>,
    <<lnMethod(n, "dispose"), lnEnd>>,
    <<lnMethod(n, "__proto__"), lnEnd>>,
    <<lnLink("Marker", pBase)>> }

\* The constructor of Arrow2 with a declaration, or none, on either side.
UnitsEitherSide ==
  { ClassUnit(fArrow2, "Arrow2", pre, TRUE, <<>>, post, <<lnBlank>>) :
      pre  \in Declarations("Arrow2") \cup {<<>>},
      post \in Declarations("Arrow2") \cup {<<>>} }
UnitsText ==
  UnitsEitherSide
    \cup { ClassUnit(fMarker, "Arrow2", <<>>, TRUE, <<>>, post, <<lnBlank>>) :
             post \in {<<>>, <<lnLink("Arrow2", pBase)>>,
                       <<lnMethod("Arrow2", "dispose"), lnEnd>>} }
    \cup {unitRoot}

TextLists == FileLists(UnitsText)
StartText == \E s \in TextLists : StartRuns(s, s)
NextText == StartText \/ NextUnit \/ Stages
SpecText == Init /\ [][NextText]_vars

\* A capability-merge statement stands at i, as written in the source.
MergeStmtAt(src, i) ==
  /\ i + 7 <= Len(src)
  /\ src[i] = ASSIGN
  /\ src[i + 1] = NS
  /\ IsWord(src[i + 2])
  /\ SubSeq(src, i + 3, i + 5) = <<PROTO, ",", " ">>
  /\ EolOf(src, i) - 3 > i + 5
  /\ SubSeq(src, EolOf(src, i) - 3, EolOf(src, i) - 1) = <<PROTO, ")", ";">>

\* Where the unit's text declares name a class: the positions of its link,
\* merge and method statements for that name.
DeclaredAt(src, name) ==
  {i \in 1..Len(src) :
     \/ LinkAt(src, i) /\ LinkChild(src, i) = name
     \/ MergeStmtAt(src, i) /\ src[i + 2] = name
     \/ MethodHeadAt(src, i) /\ src[i + 1] = name /\ src[i + 4] # "__proto__"}

\* Where the unit's text has the constructor statement of name.
ConstructorStmtAt(src, name) ==
  {i \in 1..Len(src) : HeadAt(src, i) /\ src[i + 1] = name}

\* C24: when the constructor stage starts on a unit, every name for which
\* the unit's text holds a link, merge or method statement is a class in the
\* index, wherever the statement stands; and a callback of the stage on the
\* constructor statement of such a name writes the constructor marker and
\* tags the name.
C24_TaggingIgnoresTextualOrder ==
  [][/\ (pc = "methods" /\ pc' = "constructors") =>
          \A i \in 1..Len(content) :
            \A name \in {content[i]} :
              DeclaredAt(content, name) # {} => isClass(index', name)
     /\ CallbackStep("constructors") =>
          LET name == transpiled[lastIndex' - 3]
          IN  DeclaredAt(content, name) # {} =>
                /\ Appended = SubSeq(transpiled, lastIndex, lastIndex' - 5)
                                \o <<CONSTRUCTOR>>
                /\ tagged' = Append(tagged, name)]_vars

\* In the first call of a run, the constructor of a name has just been
\* tagged, and the only statement of the unit that declares the name stands
\* after the constructor statement.
C24_Witness ==
  /\ pc = "constructors"
  /\ calls = 1
  /\ tagged # <<>>
  /\ result # <<>>
  /\ result[Len(result)] = CONSTRUCTOR
  /\ LET name == tagged[Len(tagged)]
     IN  /\ Cardinality(DeclaredAt(content, name)) = 1
         /\ \A d \in DeclaredAt(content, name) :
              \A c \in ConstructorStmtAt(content, name) : c < d
         /\ ConstructorStmtAt(content, name) # {}

\* The direct links and the capability merges the text holds for child.
LinksOf(src, child) ==
  {i \in 1..Len(src) : LinkAt(src, i) /\ LinkChild(src, i) = child}
MergesOf(src, child) ==
  {i \in 1..Len(src) : MergeStmtAt(src, i) /\ src[i + 2] = child}

\* A parent as the index names it: as written, without namespace prefix.
Bare(toks) == Join(SelectSeq(toks, LAMBDA t : t # NS))
LinkedParent(src, i) == Bare(SubSeq(src, i + 6, EolOf(src, i) - 3))
MergedParent(src, i) == Bare(SubSeq(src, i + 6, EolOf(src, i) - 4))

\* C25: in the first call of a run (nothing is recorded before the unit),
\* for every child for which the unit's text holds one direct link, to P,
\* and a capability merge from some Q other than P, in whatever order: the
\* index holds P for the child when the call returns; and a callback of the
\* superclass-call stage writes a super call in place of a statement
\* "P.call(this|that ...", and nothing in place of a statement
\* "Q.call(this|that ...", whose removal it logs.
C25_DirectLinkPrecedence ==
  [][calls = 1 =>
       \A child \in {content[i] : i \in 1..Len(content)} :
         LET L == LinksOf(content, child)
             M == MergesOf(content, child)
         IN  (Cardinality(L) = 1 /\ M # {}) =>
               LET P  == LinkedParent(content, Min(L))
                   Qs == {MergedParent(content, m) : m \in M} \ {P}
               IN  Qs # {} =>
                     /\ pc' = "returned" => Get(index', child) = P
                     /\ CallbackStep("parentConstructors") =>
                          LET s   == LineStart(transpiled, lastIndex' - 1)
                              ref == LineCallRef(transpiled, s)
                          IN  /\ ref = P =>
                                   /\ Count(Appended, SUPER) = 1
                                   /\ Count(Appended, CALL) = 0
                                   /\ log' = log
                              /\ ref \in Qs =>
                                   /\ Count(Appended, SUPER) = 0
                                   /\ Count(Appended, CALL) = 0
                                   /\ log' = Append(log,
                                        [kind |-> "removing extra parent constructor call",
                                         what |-> ref])]_vars

=============================================================================
